---- MODULE Spec2Model ----
(***************************************************************************)
(* Model of the model registry of src/ml/model_registry.py (ModelRegistry):*)
(* the ledger of model entries, its status transitions (deactivation of    *)
(* siblings, promotion of the best candidate), cleanup of archived entries *)
(* and import of an exported ledger.                                       *)
(*                                                                         *)
(* An entry is the dict built by add_model, restricted to the keys the     *)
(* registry reads: id, model_type, status, metrics, created_at.  version,  *)
(* algorithm, file_path, training_session_id, description and tags are     *)
(* copied and never read; of these only the presence of the required keys  *)
(* in the argument of add_model is modelled.  The updated_at / promoted_at *)
(* stamps that update_model_status and _promote_best_candidate write are   *)
(* never read by the registry and are left out.  metrics is a set of       *)
(* <<name, value>> pairs; accuracies are integers (scaled).                *)
(***************************************************************************)
EXTENDS Integers, Sequences, FiniteSets, TLC

\* ------------------------------------------------------------------ bounds
\* Longest ledger explored (add_model and import_registry are not taken beyond it).
MaxModels == 3
\* created_at stamps are 1..MaxClock: add_model is not taken once the clock
\* has passed MaxClock.
MaxClock == 3
\* Number of ids uuid4() hands out.
MaxUuid == 1
\* Accuracies are 1..MaxAcc (an entry without the accuracy metric counts as 0).
MaxAcc == 1
\* keep_per_type ranges over 0..MaxKeep.
MaxKeep == 1
\* Longest imported file (number of entries).
MaxImport == 2
\* Probabilities are whole numbers of ProbUnit-ths.
ProbUnit == 2
\* Longest probability vector (number of classes).
MaxClasses == 3
\* Greatest label a model predicts (labels are 0..MaxLabel).
MaxLabel == 1
\* Most predictions blended by a direct call of _ensemble_predict.
MaxBlend == 2
\* Longest list given to predict_batch.
MaxBatch == 2

\* ------------------------------------------------------------- value sets
\* Ids a caller supplies; "" is a falsy id (None or the empty string).
UserIds == {"a", "b"}
FalsyId == ""
\* model_type values a caller supplies; Absent stands for a dict without the key.
Absent == "<absent>"
GivenTypes == {"full_time"}
DefaultType == "unknown"
ModelTypes == GivenTypes \cup {DefaultType}
\* valid_statuses of update_model_status.
ValidStatuses == {"active", "candidate", "archived"}
\* A status string outside valid_statuses.
OtherStatus == "retired"
AnyStatus == ValidStatuses \cup {OtherStatus}
\* required_fields of add_model.
RequiredFields == {"id", "version", "algorithm", "metrics", "status", "file_path"}
\* The metrics dicts: with or without the accuracy key.
MetricsSet == {{}} \cup {{<<"accuracy", a>>} : a \in 1..MaxAcc}

VARIABLES
    models,   \* self.registry['models']: the in-memory ledger, a sequence of entries
    disk,     \* the 'models' list of the registry file as last written
    clock,    \* the next reading of datetime.now() in add_model
    uuids,    \* how many ids uuid4() has generated
    ret,      \* the last call: its name, arguments, error and return value
    other,    \* self.registry['models'] of a second ModelRegistry on the same file
    members,  \* EnsemblePredictor: self.models with self.model_weights, in dict order
    out       \* the last call of the EnsemblePredictor: its inputs and its result

vars == <<models, disk, clock, uuids, ret, other, members, out>>

\* A call of the first registry instance touches neither the second instance
\* nor the predictor.
RegistryCallOnly == UNCHANGED <<other, members, out>>

\* ---------------------------------------------------------------- helpers
\* dict.get(key, default) on a metrics dict.
MetricsGet(metrics, key, default) ==
    IF \E p \in metrics : p[1] = key
    THEN (CHOOSE p \in metrics : p[1] = key)[2]
    ELSE default

\* The key of _promote_best_candidate: x['metrics'].get('accuracy', 0).
Accuracy(m) == MetricsGet(m.metrics, "accuracy", 0)

\* str(uuid4()): the n-th generated id, different from every supplied id.
Uuid(n) == "uuid-" \o ToString(n)

\* The message of the ValueError a call raised; NoError when it returned.
NoError == ""
MissingField == "Missing required field"
InvalidStatus == "Invalid status"
NotFound == "Model not found"

\* The record of a call in ret: the method; its arguments when it returned
\* (<<>> when it raised); the error it raised; old_status as update_model_status
\* logs it; the entry add_model returned; the count cleanup_old_models
\* returned; the boolean update_model_status and import_registry returned.
Returned(op, args, error, old_status, entry, count, ok) ==
    [op |-> op, args |-> args, error |-> error, old_status |-> old_status,
     entry |-> entry, count |-> count, ok |-> ok]

\* Mutant of SaveRegistry: nothing is written.
SaveRegistry_Skipped(ms) == disk' = disk

\* _save_registry: the file holds the ledger passed to it.
SaveRegistry(ms) == disk' = ms

\* get_models_by_status / get_models_by_type, as the indices they select.
IndicesByStatus(ms, status) == {i \in DOMAIN ms : ms[i].status = status}
IndicesByType(ms, model_type) == {i \in DOMAIN ms : ms[i].model_type = model_type}

\* get_active_model(model_type): max(active_models, key=created_at) returns the
\* first entry, in ledger order, with the greatest created_at; 0 stands for None.
GetActiveModel(ms, model_type) ==
    LET act == IndicesByStatus(ms, "active") \cap IndicesByType(ms, model_type)
    IN  IF act = {} THEN 0
        ELSE CHOOSE i \in act :
                 \A j \in act : \/ ms[j].created_at < ms[i].created_at
                                \/ (ms[j].created_at = ms[i].created_at /\ i <= j)

\* get_model_by_id: the index of the first entry with that id, 0 for None.
GetModelById(ms, model_id) ==
    IF \E i \in DOMAIN ms : ms[i].id = model_id
    THEN CHOOSE i \in DOMAIN ms :
             ms[i].id = model_id /\ \A j \in 1..(i - 1) : ms[j].id # model_id
    ELSE 0

\* Mutant of DeactivateOtherModels: the status test names the wrong status, so
\* no active entry is ever archived.
DeactivateOtherModels_WrongStatus(ms, model_type) ==
    [i \in DOMAIN ms |->
        IF /\ ms[i].model_type = model_type
           /\ ms[i].status = "candidate"
           /\ ms[i].status # "candidate"
        THEN [ms[i] EXCEPT !.status = "archived"]
        ELSE ms[i]]

\* _deactivate_other_models: every entry of the type whose status is active
\* (and, as the code repeats, is not candidate) becomes archived.
DeactivateOtherModels(ms, model_type) ==
    [i \in DOMAIN ms |->
        IF /\ ms[i].model_type = model_type
           /\ ms[i].status = "active"
           /\ ms[i].status # "candidate"
        THEN [ms[i] EXCEPT !.status = "archived"]
        ELSE ms[i]]

\* Mutant of PromoteBestCandidate: min in place of max.
PromoteBestCandidate_Min(ms, model_type) ==
    LET cands == IndicesByType(ms, model_type) \cap IndicesByStatus(ms, "candidate")
    IN  IF cands = {} THEN ms
        ELSE LET best == CHOOSE i \in cands :
                             \A j \in cands :
                                 \/ Accuracy(ms[j]) > Accuracy(ms[i])
                                 \/ (Accuracy(ms[j]) = Accuracy(ms[i]) /\ i <= j)
             IN  [ms EXCEPT ![best].status = "active"]

\* Mutant of PromoteBestCandidate: of the candidates with the greatest
\* accuracy the last one is taken (max over the reversed list).
PromoteBestCandidate_LastOfTies(ms, model_type) ==
    LET cands == IndicesByType(ms, model_type) \cap IndicesByStatus(ms, "candidate")
    IN  IF cands = {} THEN ms
        ELSE LET best == CHOOSE i \in cands :
                             \A j \in cands :
                                 \/ Accuracy(ms[j]) < Accuracy(ms[i])
                                 \/ (Accuracy(ms[j]) = Accuracy(ms[i]) /\ i >= j)
             IN  [ms EXCEPT ![best].status = "active"]

\* _promote_best_candidate: max(candidates, key=accuracy) is the first
\* candidate of the type, in ledger order, with the greatest accuracy.
PromoteBestCandidate(ms, model_type) ==
    LET cands == IndicesByType(ms, model_type) \cap IndicesByStatus(ms, "candidate")
    IN  IF cands = {} THEN ms
        ELSE LET best == CHOOSE i \in cands :
                             \A j \in cands :
                                 \/ Accuracy(ms[j]) < Accuracy(ms[i])
                                 \/ (Accuracy(ms[j]) = Accuracy(ms[i]) /\ i <= j)
             IN  [ms EXCEPT ![best].status = "active"]

\* ------------------------------------------------------------- add_model
\* The dicts passed to add_model: which required keys are present, and the
\* values of the keys the registry reads.
ModelDataWith(presents, statuses) ==
    [present : presents,
     id : UserIds \cup {FalsyId},
     status : statuses,
     model_type : GivenTypes \cup {Absent},
     metrics : MetricsSet]

\* Complete dicts, and dicts that lack exactly one required key.
CompleteData == ModelDataWith({RequiredFields}, ValidStatuses)
IncompleteData ==
    {d \in ModelDataWith({RequiredFields \ {f} : f \in RequiredFields}, {"active"}) :
        d.id = "a" /\ d.model_type # Absent /\ d.metrics = {}}
ModelData == CompleteData \cup IncompleteData

\* Mutant of ModelEntry: the id of model_data is kept even when it is falsy.
ModelEntry_KeepsId(model_data, now) ==
    [id |-> model_data.id,
     metrics |-> model_data.metrics,
     created_at |-> now,
     status |-> model_data.status,
     model_type |-> IF model_data.model_type = Absent THEN DefaultType
                    ELSE model_data.model_type]

\* The model_entry dict add_model builds from model_data at time now.
ModelEntry(model_data, now) ==
    [id |-> IF model_data.id = FalsyId THEN Uuid(uuids + 1) ELSE model_data.id,
     metrics |-> model_data.metrics,
     created_at |-> now,
     status |-> model_data.status,
     model_type |-> IF model_data.model_type = Absent THEN DefaultType
                    ELSE model_data.model_type]

\* Mutant of AddModelRejects: the required keys are checked after the entry
\* has been appended.
AddModelRejects_AfterAppend(model_data) ==
    /\ model_data.present # RequiredFields
    /\ Len(models) < MaxModels
    /\ clock <= MaxClock
    /\ models' = Append(models, ModelEntry(model_data, clock))
    /\ clock' = clock + 1
    /\ ret' = Returned("add_model", <<>>, MissingField, "", <<>>, 0, FALSE)
    /\ UNCHANGED <<disk, uuids>>

\* The validation loop: a required key is missing, ValueError is raised before
\* anything is touched.
AddModelRejects(model_data) ==
    /\ model_data.present # RequiredFields
    /\ ret' = Returned("add_model", <<>>, MissingField, "", <<>>, 0, FALSE)
    /\ UNCHANGED <<models, disk, clock, uuids>>

\* The rest of add_model: build the entry, append it, deactivate, save, return.
AddModelAccepts(model_data) ==
    /\ model_data.present = RequiredFields
    /\ Len(models) < MaxModels
    /\ clock <= MaxClock
    /\ model_data.id = FalsyId => uuids < MaxUuid
    /\ LET now == clock
           model_entry == ModelEntry(model_data, now)
           appended == Append(models, model_entry)
           final == IF model_entry.status = "active"
                    THEN DeactivateOtherModels(appended, model_entry.model_type)
                    ELSE appended
       IN  /\ models' = final
           /\ SaveRegistry(final)
           \* the returned dict is the stored one, as it stands on return
           /\ ret' = Returned("add_model", <<model_data>>, NoError, "",
                              <<final[Len(final)]>>, 0, TRUE)
           /\ clock' = now + 1  \* a later call reads a later time
    /\ uuids' = IF model_data.id = FalsyId THEN uuids + 1 ELSE uuids

add_model(model_data) == AddModelRejects(model_data) \/ AddModelAccepts(model_data)

\* --------------------------------------------------- update_model_status
update_model_status(model_id, new_status) ==
    LET idx == GetModelById(models, model_id) IN
    \/ \* invalid status: ValueError before anything is touched
       /\ new_status \notin ValidStatuses
       /\ ret' = Returned("update_model_status", <<>>, InvalidStatus, "", <<>>, 0, FALSE)
       /\ UNCHANGED <<models, disk, clock, uuids>>
    \/ \* unknown id: ValueError before anything is touched
       /\ new_status \in ValidStatuses
       /\ idx = 0
       /\ ret' = Returned("update_model_status", <<>>, NotFound, "", <<>>, 0, FALSE)
       /\ UNCHANGED <<models, disk, clock, uuids>>
    \/ /\ new_status \in ValidStatuses
       /\ idx # 0
       /\ LET old_status == models[idx].status
              set == [models EXCEPT ![idx].status = new_status]
              final == IF new_status = "active"
                       THEN DeactivateOtherModels(set, set[idx].model_type)
                       ELSE IF old_status = "active" /\ new_status # "active"
                            THEN PromoteBestCandidate(set, set[idx].model_type)
                            ELSE set
          IN  /\ models' = final
              /\ SaveRegistry(final)
              /\ ret' = Returned("update_model_status", <<model_id, new_status>>,
                                 NoError, old_status, <<>>, 0, TRUE)
       /\ UNCHANGED <<clock, uuids>>

\* ---------------------------------------------------- cleanup_old_models
\* models.sort(key=created_at, reverse=True): a stable sort, so entries with
\* equal created_at keep their ledger order.
RECURSIVE InsertDesc(_, _)
InsertDesc(sorted, m) ==
    IF sorted = <<>> THEN <<m>>
    ELSE IF Head(sorted).created_at >= m.created_at
         THEN <<Head(sorted)>> \o InsertDesc(Tail(sorted), m)
         ELSE <<m>> \o sorted

RECURSIVE SortByCreatedDesc(_)
SortByCreatedDesc(ms) ==
    IF ms = <<>> THEN <<>>
    ELSE InsertDesc(SortByCreatedDesc(SubSeq(ms, 1, Len(ms) - 1)), ms[Len(ms)])

\* seq[:k] of Python.
Slice(seq, k) ==
    IF k >= 0
    THEN SubSeq(seq, 1, IF k < Len(seq) THEN k ELSE Len(seq))
    ELSE SubSeq(seq, 1, IF Len(seq) + k > 0 THEN Len(seq) + k ELSE 0)

\* m in list: membership by dict equality.
InList(m, seq) == \E i \in DOMAIN seq : seq[i] = m

\* list.remove(m): drops the first element equal to m.
RemoveFirst(seq, m) ==
    LET i == CHOOSE i \in DOMAIN seq : seq[i] = m /\ \A j \in 1..(i - 1) : seq[j] # m
    IN  SubSeq(seq, 1, i - 1) \o SubSeq(seq, i + 1, Len(seq))

RECURSIVE RemoveAll(_, _)
RemoveAll(seq, toRemove) ==
    IF toRemove = <<>> THEN seq
    ELSE RemoveAll(RemoveFirst(seq, Head(toRemove)), Tail(toRemove))

\* The keys of models_by_type in insertion order: the types in order of first
\* appearance in the ledger.
RECURSIVE TypesInOrder(_)
TypesInOrder(ms) ==
    IF ms = <<>> THEN <<>>
    ELSE LET init == TypesInOrder(SubSeq(ms, 1, Len(ms) - 1))
             t == ms[Len(ms)].model_type
         IN  IF \E i \in DOMAIN init : init[i] = t THEN init ELSE Append(init, t)

\* models_to_remove of one type: the entries of the sorted group that are not
\* (equal to an entry) in to_keep.
ModelsToRemove(ms, model_type, keep_per_type) ==
    LET group == SelectSeq(ms, LAMBDA m : m.model_type = model_type)
        sorted == SortByCreatedDesc(group)
        kept == SelectSeq(sorted, LAMBDA m : m.status \in {"active", "candidate"})
        archived_models == SelectSeq(sorted, LAMBDA m : m.status = "archived")
        to_keep == kept \o Slice(archived_models, keep_per_type)
    IN  SelectSeq(sorted, LAMBDA m : ~InList(m, to_keep))

\* The loop over models_by_type: the ledger after the removals of each type.
RECURSIVE CleanupTypes(_, _, _)
CleanupTypes(ms, types, keep_per_type) ==
    IF types = <<>> THEN ms
    ELSE CleanupTypes(RemoveAll(ms, ModelsToRemove(ms, Head(types), keep_per_type)),
                      Tail(types), keep_per_type)

cleanup_old_models(keep_per_type) ==
    LET final == CleanupTypes(models, TypesInOrder(models), keep_per_type)
        cleaned_up == Len(models) - Len(final)
    IN  /\ models' = final
        /\ IF cleaned_up > 0 THEN SaveRegistry(final) ELSE UNCHANGED disk
        /\ ret' = Returned("cleanup_old_models", <<keep_per_type>>, NoError, "",
                        <<>>, cleaned_up, TRUE)
        /\ UNCHANGED <<clock, uuids>>

\* -------------------------------------------------------- import_registry
\* The entries an import file may list: entries of an earlier registry (their
\* created_at, 0, is before every stamp this registry gives).  The files: every
\* list of at most len of them.  NoFile is a path at which no file exists.
ImportEntries ==
    [id : UserIds, metrics : {{}}, created_at : {0},
     status : {"active", "archived"}, model_type : GivenTypes]
FilesUpTo(len) ==
    {[exists |-> TRUE, models |-> f] :
        f \in UNION {[1..n -> ImportEntries] : n \in 0..len}}
ImportFiles == FilesUpTo(MaxImport)
NoFile == [exists |-> FALSE, models |-> <<>>]

\* Mutant of MergeModels: no test against the ids already in the ledger.
MergeModels_NoIdTest(ms, imported_models) == ms \o imported_models

\* The merge branch: the imported entries whose id is not yet in the ledger
\* are appended, in file order.
MergeModels(ms, imported_models) ==
    LET existing_ids == {ms[i].id : i \in DOMAIN ms}
        new_models == SelectSeq(imported_models, LAMBDA m : m.id \notin existing_ids)
    IN  ms \o new_models

import_registry(file, merge) ==
    \/ \* the file does not exist: the ValueError is caught, False is returned
       /\ ~file.exists
       /\ ret' = Returned("import_registry", <<file, merge>>, NoError, "", <<>>, 0, FALSE)
       /\ UNCHANGED <<models, disk, clock, uuids>>
    \/ /\ file.exists
       /\ LET imported_models == file.models
              final == IF merge THEN MergeModels(models, imported_models)
                       ELSE imported_models
          IN  /\ Len(final) <= MaxModels
              /\ models' = final
              /\ SaveRegistry(final)
              /\ ret' = Returned("import_registry", <<file, merge>>, NoError, "", <<>>, 0, TRUE)
       /\ UNCHANGED <<clock, uuids>>

\* ------------------------------------------------------- a failing write
\* open() or json.dump() in _save_registry raises: the registry file is taken
\* to stay as it was.  The mutating calls below are the calls above with that
\* outcome; their record in ret carries the outcome after the arguments.
IOFailure == "OSError"
WriteFails == "write fails"

\* The ledger add_model has in memory when it reaches _save_registry.
AddModelLedger(model_data) ==
    LET model_entry == ModelEntry(model_data, clock)
        appended == Append(models, model_entry)
    IN  IF model_entry.status = "active"
        THEN DeactivateOtherModels(appended, model_entry.model_type)
        ELSE appended

\* Mutant of add_model_write_fails: the appended entry is taken back.
add_model_write_fails_RollsBack(model_data) ==
    /\ model_data.present = RequiredFields
    /\ Len(models) < MaxModels
    /\ clock <= MaxClock
    /\ model_data.id = FalsyId => uuids < MaxUuid
    /\ models' = models
    /\ disk' = disk
    /\ ret' = Returned("add_model", <<model_data, WriteFails>>, IOFailure, "", <<>>, 0, FALSE)
    /\ clock' = clock + 1
    /\ uuids' = IF model_data.id = FalsyId THEN uuids + 1 ELSE uuids

\* add_model when _save_registry raises: the exception leaves add_model, the
\* entry stays appended.
add_model_write_fails(model_data) ==
    /\ model_data.present = RequiredFields
    /\ Len(models) < MaxModels
    /\ clock <= MaxClock
    /\ model_data.id = FalsyId => uuids < MaxUuid
    /\ models' = AddModelLedger(model_data)
    /\ disk' = disk
    /\ ret' = Returned("add_model", <<model_data, WriteFails>>, IOFailure, "", <<>>, 0, FALSE)
    /\ clock' = clock + 1
    /\ uuids' = IF model_data.id = FalsyId THEN uuids + 1 ELSE uuids

\* The ledger update_model_status has in memory when it reaches _save_registry.
UpdateStatusLedger(model_id, new_status) ==
    LET idx == GetModelById(models, model_id)
        old_status == models[idx].status
        set == [models EXCEPT ![idx].status = new_status]
    IN  IF new_status = "active"
        THEN DeactivateOtherModels(set, set[idx].model_type)
        ELSE IF old_status = "active" /\ new_status # "active"
             THEN PromoteBestCandidate(set, set[idx].model_type)
             ELSE set

\* update_model_status when _save_registry raises.
update_model_status_write_fails(model_id, new_status) ==
    /\ new_status \in ValidStatuses
    /\ GetModelById(models, model_id) # 0
    /\ models' = UpdateStatusLedger(model_id, new_status)
    /\ disk' = disk
    /\ ret' = Returned("update_model_status", <<model_id, new_status, WriteFails>>,
                       IOFailure, models[GetModelById(models, model_id)].status, <<>>, 0, FALSE)
    /\ UNCHANGED <<clock, uuids>>

\* cleanup_old_models when _save_registry raises: it is called only after
\* something was removed.
cleanup_old_models_write_fails(keep_per_type) ==
    LET final == CleanupTypes(models, TypesInOrder(models), keep_per_type) IN
    /\ Len(models) - Len(final) > 0
    /\ models' = final
    /\ disk' = disk
    /\ ret' = Returned("cleanup_old_models", <<keep_per_type, WriteFails>>, IOFailure, "",
                       <<>>, 0, FALSE)
    /\ UNCHANGED <<clock, uuids>>

\* import_registry when _save_registry raises: the except clause catches the
\* exception and False is returned; the ledger was already merged or replaced.
import_registry_write_fails(file, merge) ==
    /\ file.exists
    /\ LET final == IF merge THEN MergeModels(models, file.models) ELSE file.models
       IN  /\ Len(final) <= MaxModels
           /\ models' = final
    /\ disk' = disk
    /\ ret' = Returned("import_registry", <<file, merge, WriteFails>>, NoError, "", <<>>, 0, FALSE)
    /\ UNCHANGED <<clock, uuids>>

\* --------------------------------------------- a second registry instance
\* ModelRegistry.__init__ of a second instance on the same path: the file
\* exists, _load_or_initialize_registry reads it into the instance's registry.
other_init ==
    /\ other' = disk
    /\ UNCHANGED <<models, disk, clock, uuids, ret, members, out>>

\* Mutant of other_add_model: the file is read again before the entry is
\* appended, so the write carries what the file held.
other_add_model_Reloads(model_data) ==
    /\ model_data.present = RequiredFields
    /\ Len(disk) < MaxModels
    /\ clock <= MaxClock
    /\ model_data.id # FalsyId
    /\ LET model_entry == ModelEntry(model_data, clock)
           appended == Append(disk, model_entry)
           final == IF model_entry.status = "active"
                    THEN DeactivateOtherModels(appended, model_entry.model_type)
                    ELSE appended
       IN  /\ other' = final
           /\ SaveRegistry(final)
           /\ ret' = Returned("other.add_model", <<model_data>>, NoError, "",
                              <<final[Len(final)]>>, 0, TRUE)
    /\ clock' = clock + 1
    /\ UNCHANGED <<models, uuids, members, out>>

\* add_model of the second instance (with an id given): it appends to its own
\* in-memory ledger and _save_registry writes that ledger over the file.
other_add_model(model_data) ==
    /\ model_data.present = RequiredFields
    /\ Len(other) < MaxModels
    /\ clock <= MaxClock
    /\ model_data.id # FalsyId
    /\ LET model_entry == ModelEntry(model_data, clock)
           appended == Append(other, model_entry)
           final == IF model_entry.status = "active"
                    THEN DeactivateOtherModels(appended, model_entry.model_type)
                    ELSE appended
       IN  /\ other' = final
           /\ SaveRegistry(final)
           /\ ret' = Returned("other.add_model", <<model_data>>, NoError, "",
                              <<final[Len(final)]>>, 0, TRUE)
    /\ clock' = clock + 1
    /\ UNCHANGED <<models, uuids, members, out>>

\* ------------------------------------------------------ EnsemblePredictor
\* Weights are in hundredths: 70 is the 0.7 of the champion, 30 the 0.3 that
\* the challengers share.
ChampionWeight == 70
RemainingWeight == 30
\* The [:2] of the challengers.
MaxChallengers == 2

\* model_type=None of EnsemblePredictor.__init__.
NoModelType == "<None>"

\* sorted(candidate_models, key=accuracy, reverse=True): a stable sort, so
\* candidates of equal accuracy keep their ledger order.
RECURSIVE InsertByAccuracy(_, _)
InsertByAccuracy(sorted, m) ==
    IF sorted = <<>> THEN <<m>>
    ELSE IF Accuracy(Head(sorted)) >= Accuracy(m)
         THEN <<Head(sorted)>> \o InsertByAccuracy(Tail(sorted), m)
         ELSE <<m>> \o sorted

RECURSIVE SortByAccuracyDesc(_)
SortByAccuracyDesc(ms) ==
    IF ms = <<>> THEN <<>>
    ELSE InsertByAccuracy(SortByAccuracyDesc(SubSeq(ms, 1, Len(ms) - 1)), ms[Len(ms)])

\* The entries of ledger ms with a status, of model_type when one is given.
OfStatusAndType(ms, status, model_type) ==
    SelectSeq(ms, LAMBDA m : /\ m.status = status
                             /\ model_type # NoModelType => m.model_type = model_type)

\* Mutant of Selection: every challenger is given the whole remaining weight.
Selection_WholeRemainder(ms, model_type) ==
    LET active_models == OfStatusAndType(ms, "active", model_type)
        candidate_models == OfStatusAndType(ms, "candidate", model_type)
        champion == active_models[
            CHOOSE i \in DOMAIN active_models :
                \A j \in DOMAIN active_models :
                    \/ active_models[j].created_at < active_models[i].created_at
                    \/ /\ active_models[j].created_at = active_models[i].created_at
                       /\ i <= j]
        challengers == Slice(SortByAccuracyDesc(candidate_models), MaxChallengers)
    IN  (IF active_models # <<>> THEN <<<<champion, ChampionWeight>>>> ELSE <<>>)
        \o [k \in DOMAIN challengers |-> <<challengers[k], RemainingWeight>>]

\* The calls of _load_single_model that _load_models makes, in order, as
\* <<model_entry, weight>> pairs: the champion, max(active_models,
\* key=created_at) (the first of the latest), then the challengers.
Selection(ms, model_type) ==
    LET active_models == OfStatusAndType(ms, "active", model_type)
        candidate_models == OfStatusAndType(ms, "candidate", model_type)
        champion == active_models[
            CHOOSE i \in DOMAIN active_models :
                \A j \in DOMAIN active_models :
                    \/ active_models[j].created_at < active_models[i].created_at
                    \/ /\ active_models[j].created_at = active_models[i].created_at
                       /\ i <= j]
        challengers == Slice(SortByAccuracyDesc(candidate_models), MaxChallengers)
        challenger_weight == IF challengers # <<>>
                             THEN RemainingWeight \div Len(challengers) ELSE 0
    IN  (IF active_models # <<>> THEN <<<<champion, ChampionWeight>>>> ELSE <<>>)
        \o [k \in DOMAIN challengers |-> <<challengers[k], challenger_weight>>]

\* _load_single_model: when the artifact loads, self.models[model_id] and
\* self.model_weights[model_id] are set; an id already in the dict keeps its
\* place and takes the new entry and weight.  When it does not load, nothing.
LoadSingleModel(mem, model_entry, weight, loads) ==
    LET member == [id |-> model_entry.id, weight |-> weight, model_entry |-> model_entry]
    IN  IF ~loads THEN mem
        ELSE IF \E k \in DOMAIN mem : mem[k].id = model_entry.id
             THEN [k \in DOMAIN mem |-> IF mem[k].id = model_entry.id THEN member ELSE mem[k]]
             ELSE Append(mem, member)

\* The loop of _load_single_model calls over the first n pairs of sel; loaded
\* is the set of positions of sel whose artifact loads.
RECURSIVE LoadAll(_, _, _)
LoadAll(sel, loaded, n) ==
    IF n = 0 THEN <<>>
    ELSE LoadSingleModel(LoadAll(sel, loaded, n - 1), sel[n][1], sel[n][2], n \in loaded)

\* EnsemblePredictor.__init__: a ModelRegistry is constructed on the registry
\* file, and _load_models fills self.models from it.
load_models(model_type, loaded) ==
    LET sel == Selection(disk, model_type) IN
    /\ loaded \subseteq DOMAIN sel
    /\ members' = LoadAll(sel, loaded, Len(sel))
    /\ out' = [op |-> "load_models", model_type |-> model_type, selection |-> sel,
               loaded |-> loaded]
    /\ UNCHANGED <<models, disk, clock, uuids, ret, other>>

\* ------------------------------------------------------------- blending
\* A probability is a whole number of ProbUnit-ths; a probability vector is a
\* sequence of them (the array predict_proba returns), <<>> stands for a
\* model without predict_proba.  predictions and probabilities are dicts in
\* insertion order: sequences of <<model_id, value>> pairs.  model_weights is
\* a set of <<model_id, weight>> pairs.  A result is the dict returned, or the
\* exception raised; a confidence is the fraction <<numerator, denominator>>.
NoVector == <<>>
NoLabel == -1
NoPredictions == "No predictions to ensemble"
BroadcastError == "operands could not be broadcast together"

Blended(prediction, confidence) ==
    [error |-> NoError, prediction |-> prediction, confidence |-> confidence]
Raised(error) == [error |-> error, prediction |-> NoLabel, confidence |-> <<0, 1>>]

\* The greatest length of the vectors: len(all_classes).
RECURSIVE MaxLen(_)
MaxLen(probabilities) ==
    IF probabilities = <<>> THEN 0
    ELSE LET rest == MaxLen(Tail(probabilities))
             len == Len(Head(probabilities)[2])
         IN  IF len > rest THEN len ELSE rest

\* weighted_probs[c] after the loop: the sum of proba[c] * weight, a vector
\* of length 1 being broadcast to every class.
RECURSIVE WeightedSum(_, _, _)
WeightedSum(probabilities, weights, c) ==
    IF probabilities = <<>> THEN 0
    ELSE LET proba == Head(probabilities)[2]
             weight == MetricsGet(weights, Head(probabilities)[1], 0)
         IN  (IF Len(proba) = 1 THEN proba[1] ELSE proba[c]) * weight
             + WeightedSum(Tail(probabilities), weights, c)

\* total_weight after the loop.
RECURSIVE TotalWeight(_, _)
TotalWeight(probabilities, weights) ==
    IF probabilities = <<>> THEN 0
    ELSE MetricsGet(weights, Head(probabilities)[1], 0)
         + TotalWeight(Tail(probabilities), weights)

\* Mutant of WeightedProbs: the sums are taken as they are, as if the weights
\* present always added up to 1.
WeightedProbs_NotNormalized(probabilities, weights, c) ==
    <<WeightedSum(probabilities, weights, c), (ChampionWeight + RemainingWeight) * ProbUnit>>

\* weighted_probs[c] after "Normalize", as a fraction: the sum is divided by
\* total_weight only when that is positive (otherwise every sum is 0).
WeightedProbs(probabilities, weights, c) ==
    LET total_weight == TotalWeight(probabilities, weights)
    IN  IF total_weight > 0
        THEN <<WeightedSum(probabilities, weights, c), total_weight * ProbUnit>>
        ELSE <<WeightedSum(probabilities, weights, c), ProbUnit>>

\* _weighted_probability_ensemble.  weighted_probs has len(all_classes)
\* entries; adding a vector of another length, other than 1, raises
\* ValueError.  np.argmax returns the first index of the maximum; classes are
\* numbered from 0.  The sums are divided by total_weight only when it is
\* positive.
WeightedProbabilityEnsemble(probabilities, weights) ==
    LET n == MaxLen(probabilities)
        sum(c) == WeightedSum(probabilities, weights, c)
        best == CHOOSE c \in 1..n :
                    \A d \in 1..n : sum(d) < sum(c) \/ (sum(d) = sum(c) /\ c <= d)
    IN  IF \E k \in DOMAIN probabilities : Len(probabilities[k][2]) \notin {1, n}
        THEN Raised(BroadcastError)
        ELSE Blended(best - 1, WeightedProbs(probabilities, weights, best))

\* vote_counts after the loop, as <<label, votes>> pairs in the order the
\* labels were first voted for.
RECURSIVE VoteCounts(_, _)
VoteCounts(predictions, weights) ==
    IF predictions = <<>> THEN <<>>
    ELSE LET before == VoteCounts(SubSeq(predictions, 1, Len(predictions) - 1), weights)
             last == predictions[Len(predictions)]
             weight == MetricsGet(weights, last[1], 0)
         IN  IF \E k \in DOMAIN before : before[k][1] = last[2]
             THEN [k \in DOMAIN before |->
                      IF before[k][1] = last[2]
                      THEN <<before[k][1], before[k][2] + weight>> ELSE before[k]]
             ELSE Append(before, <<last[2], weight>>)

RECURSIVE SumVotes(_)
SumVotes(vote_counts) ==
    IF vote_counts = <<>> THEN 0 ELSE Head(vote_counts)[2] + SumVotes(Tail(vote_counts))

\* Mutant of WeightedVotingEnsemble: the label with the fewest votes wins.
WeightedVotingEnsemble_LeastVoted(predictions, weights) ==
    LET vote_counts == VoteCounts(predictions, weights)
        best == CHOOSE k \in DOMAIN vote_counts :
                    \A l \in DOMAIN vote_counts :
                        \/ vote_counts[l][2] > vote_counts[k][2]
                        \/ (vote_counts[l][2] = vote_counts[k][2] /\ k <= l)
        total_votes == SumVotes(vote_counts)
    IN  Blended(vote_counts[best][1],
                IF total_votes > 0 THEN <<vote_counts[best][2], total_votes>>
                ELSE <<0, 1>>)

\* _weighted_voting_ensemble: max(vote_counts.items(), key=votes) is the
\* first label, in that order, with the most votes.
WeightedVotingEnsemble(predictions, weights) ==
    LET vote_counts == VoteCounts(predictions, weights)
        best == CHOOSE k \in DOMAIN vote_counts :
                    \A l \in DOMAIN vote_counts :
                        \/ vote_counts[l][2] < vote_counts[k][2]
                        \/ (vote_counts[l][2] = vote_counts[k][2] /\ k <= l)
        total_votes == SumVotes(vote_counts)
    IN  Blended(vote_counts[best][1],
                IF total_votes > 0 THEN <<vote_counts[best][2], total_votes>>
                ELSE <<0, 1>>)

\* Mutant of EnsemblePredict: a single prediction is blended like several.
EnsemblePredict_NoShortcut(predictions, probabilities, weights) ==
    IF predictions = <<>> THEN Raised(NoPredictions)
    ELSE IF probabilities # <<>>
         THEN WeightedProbabilityEnsemble(probabilities, weights)
         ELSE WeightedVotingEnsemble(predictions, weights)

\* _ensemble_predict.
EnsemblePredict(predictions, probabilities, weights) ==
    IF predictions = <<>> THEN Raised(NoPredictions)
    ELSE IF Len(predictions) = 1 THEN Blended(predictions[1][2], <<1, 1>>)
    ELSE IF probabilities # <<>>
         THEN WeightedProbabilityEnsemble(probabilities, weights)
         ELSE WeightedVotingEnsemble(predictions, weights)

\* _ensemble_predict called with the arguments held in out, and with
\* self.model_weights as given there.
ensemble_predict ==
    /\ out.op = "inputs"
    /\ LET result == EnsemblePredict(out.predictions, out.probabilities, out.weights)
       IN  out' = [op |-> "ensemble_predict", predictions |-> out.predictions,
                   probabilities |-> out.probabilities, weights |-> out.weights,
                   error |-> result.error, prediction |-> result.prediction,
                   confidence |-> result.confidence]
    /\ UNCHANGED <<models, disk, clock, uuids, ret, other, members>>

\* ------------------------------------------------------- predict_single
NoModels == "No models loaded for prediction"
AllFailed == "All model predictions failed"

\* What the calls on one member's model do: predict raises; predict returns
\* a label and the model has no predict_proba; predict returns a label and
\* predict_proba raises; both return.
Labels == 0..MaxLabel
Vectors ==
    {v \in UNION {[1..n -> 0..ProbUnit] : n \in 1..MaxClasses} :
        LET RECURSIVE Sum(_)
            Sum(k) == IF k = 0 THEN 0 ELSE v[k] + Sum(k - 1)
        IN  Sum(Len(v)) = ProbUnit}
Outcomes ==
    [kind : {"raises"}, label : {NoLabel}, proba : {NoVector}]
    \cup [kind : {"label", "proba_raises"}, label : Labels, proba : {NoVector}]
    \cup [kind : {"proba"}, label : Labels, proba : Vectors]

\* predictions after the loop over self.models: the label of every member
\* whose predict returned, in member order.
RECURSIVE Predictions(_, _)
Predictions(mem, outcomes) ==
    IF mem = <<>> THEN <<>>
    ELSE LET n == Len(mem)
             before == Predictions(SubSeq(mem, 1, n - 1), SubSeq(outcomes, 1, n - 1))
         IN  IF outcomes[n].kind = "raises" THEN before
             ELSE Append(before, <<mem[n].id, outcomes[n].label>>)

\* probabilities after the loop: the vector of every member whose predict
\* and predict_proba both returned.
RECURSIVE Probabilities(_, _)
Probabilities(mem, outcomes) ==
    IF mem = <<>> THEN <<>>
    ELSE LET n == Len(mem)
             before == Probabilities(SubSeq(mem, 1, n - 1), SubSeq(outcomes, 1, n - 1))
         IN  IF outcomes[n].kind # "proba" THEN before
             ELSE Append(before, <<mem[n].id, outcomes[n].proba>>)

\* self.model_weights.
ModelWeights(mem) == {<<mem[k].id, mem[k].weight>> : k \in DOMAIN mem}

\* The record of a predict_single call in out.
Predicted(outcomes, predictions, probabilities, result) ==
    [op |-> "predict_single", outcomes |-> outcomes, predictions |-> predictions,
     probabilities |-> probabilities, error |-> result.error,
     prediction |-> result.prediction, confidence |-> result.confidence]

\* predict_single (preprocessing taken to succeed); outcomes[k] is what the
\* model of the k-th member does.  An exception of _ensemble_predict leaves
\* predict_single.
predict_single(outcomes) ==
    LET predictions == Predictions(members, outcomes)
        probabilities == Probabilities(members, outcomes)
    IN
    /\ \/ /\ members = <<>>
          /\ out' = Predicted(outcomes, <<>>, <<>>, Raised(NoModels))
       \/ /\ members # <<>>
          /\ predictions = <<>>
          /\ out' = Predicted(outcomes, predictions, probabilities, Raised(AllFailed))
       \/ /\ members # <<>>
          /\ predictions # <<>>
          /\ out' = Predicted(outcomes, predictions, probabilities,
                              EnsemblePredict(predictions, probabilities,
                                              ModelWeights(members)))
    /\ UNCHANGED <<models, disk, clock, uuids, ret, other, members>>

\* What predict_single does with members mem whose models behave as outcomes:
\* the dict it returns, or the exception that leaves it.
PredictSingleResult(mem, outcomes) ==
    IF mem = <<>> THEN Raised(NoModels)
    ELSE IF Predictions(mem, outcomes) = <<>> THEN Raised(AllFailed)
    ELSE EnsemblePredict(Predictions(mem, outcomes), Probabilities(mem, outcomes),
                         ModelWeights(mem))

\* Mutant of BatchRecord: every record carries match_index 0.
BatchRecord_NoIndex(i, result) ==
    [match_index |-> 0, error |-> result.error,
     prediction |-> result.prediction, confidence |-> result.confidence]

\* The dict predict_batch appends for item i (counted from 0): the prediction
\* with its match_index, or match_index and str(e) of the exception caught.
BatchRecord(i, result) ==
    [match_index |-> i, error |-> result.error,
     prediction |-> result.prediction, confidence |-> result.confidence]

\* Mutant of PredictBatchResults: the loop stops at the first item that fails.
RECURSIVE PredictBatchResults_Aborts(_, _, _)
PredictBatchResults_Aborts(mem, items, n) ==
    IF n = 0 THEN <<>>
    ELSE LET before == PredictBatchResults_Aborts(mem, items, n - 1)
         IN  IF \E k \in DOMAIN before : before[k].error # NoError THEN before
             ELSE Append(before, BatchRecord(n - 1, PredictSingleResult(mem, items[n])))

\* results after the first n items of the loop of predict_batch; items[k] is
\* what the members' models do on the k-th item.
RECURSIVE PredictBatchResults(_, _, _)
PredictBatchResults(mem, items, n) ==
    IF n = 0 THEN <<>>
    ELSE Append(PredictBatchResults(mem, items, n - 1),
                BatchRecord(n - 1, PredictSingleResult(mem, items[n])))

\* predict_batch: every exception of predict_single is caught in the loop,
\* and nothing else in the body raises, so the call returns results.
predict_batch(items) ==
    /\ out' = [op |-> "predict_batch", items |-> items, error |-> NoError,
               results |-> PredictBatchResults(members, items, Len(items))]
    /\ UNCHANGED <<models, disk, clock, uuids, ret, other, members>>

\* get_model_status: the number of members and their weights are read.
get_model_status ==
    /\ out' = [op |-> "get_model_status", total_models |-> Len(members),
               weights |-> ModelWeights(members)]
    /\ UNCHANGED <<models, disk, clock, uuids, ret, other, members>>

\* ----------------------------------------------------------- specification
\* out before any call of the predictor.
NoCall == [op |-> "none"]

\* A registry constructed where no registry file exists.
Init ==
    /\ models = <<>>
    /\ disk = <<>>
    /\ clock = 1
    /\ uuids = 0
    /\ ret = Returned("init", <<>>, NoError, "", <<>>, 0, TRUE)
    /\ other = <<>>
    /\ members = <<>>
    /\ out = NoCall

AddModel ==
    /\ \E model_data \in ModelData : add_model(model_data)
    /\ RegistryCallOnly

UpdateModelStatus ==
    /\ \E model_id \in UserIds \cup {Uuid(n) : n \in 1..MaxUuid}, new_status \in AnyStatus :
           update_model_status(model_id, new_status)
    /\ RegistryCallOnly

CleanupOldModels ==
    /\ \E keep_per_type \in 0..MaxKeep : cleanup_old_models(keep_per_type)
    /\ RegistryCallOnly

ImportRegistry ==
    /\ \E file \in ImportFiles \cup {NoFile}, merge \in BOOLEAN : import_registry(file, merge)
    /\ RegistryCallOnly

\* The registry with every operation and every input.
Next == AddModel \/ UpdateModelStatus \/ CleanupOldModels \/ ImportRegistry

Spec == Init /\ [][Next]_vars

\* The registry used through add_model and update_model_status alone.
NextAddSet == AddModel \/ UpdateModelStatus

SpecAddSet == Init /\ [][NextAddSet]_vars

\* The status transitions: add_model with a given id, update_model_status, and
\* imports of files of at most one entry (the only way an entry stays active).
AddModelWithId ==
    /\ \E model_data \in {d \in ModelData : d.id # FalsyId} : add_model(model_data)
    /\ RegistryCallOnly

ImportShortFile ==
    /\ \E file \in FilesUpTo(1) \cup {NoFile}, merge \in BOOLEAN : import_registry(file, merge)
    /\ RegistryCallOnly

NextStatus == AddModelWithId \/ UpdateModelStatus \/ ImportShortFile

SpecStatus == Init /\ [][NextStatus]_vars

\* Cleanup and import: add_model with a given id and no accuracy metric (the
\* metrics play no part in either), cleanup_old_models, import_registry.
AddModelNoMetrics ==
    /\ \E model_data \in {d \in ModelData : d.id # FalsyId /\ d.metrics = {}} :
           add_model(model_data)
    /\ RegistryCallOnly

NextCleanup == AddModelNoMetrics \/ CleanupOldModels \/ ImportRegistry

SpecCleanup == Init /\ [][NextCleanup]_vars

\* add_model with any status string, of entries with a given id, a given
\* model_type and no accuracy metric, and update_model_status.
AddModelAnyStatus ==
    /\ \E model_data \in {d \in ModelDataWith({RequiredFields}, AnyStatus) :
                              d.id # FalsyId /\ d.model_type # Absent /\ d.metrics = {}} :
           add_model(model_data)
    /\ RegistryCallOnly

NextAnyStatus == AddModelAnyStatus \/ UpdateModelStatus

SpecAnyStatus == Init /\ [][NextAnyStatus]_vars

\* Persistence: the four mutating calls of one registry instance, every write
\* succeeding.
NextPersist == AddModelNoMetrics \/ UpdateModelStatus \/ CleanupOldModels \/ ImportShortFile

SpecPersist == Init /\ [][NextPersist]_vars

\* Persistence with writes that may fail: the ledger is built in memory by
\* calls whose write fails, the file is written by imports that replace the
\* ledger with a file of at most one entry.
ReplaceFromShortFile ==
    /\ \E file \in FilesUpTo(1) \cup {NoFile} : import_registry(file, FALSE)
    /\ RegistryCallOnly

AddModelWriteFails ==
    /\ \E model_data \in {d \in CompleteData : d.id # FalsyId /\ d.metrics = {}} :
           add_model_write_fails(model_data)
    /\ RegistryCallOnly

UpdateModelStatusWriteFails ==
    /\ \E model_id \in UserIds, new_status \in ValidStatuses :
           update_model_status_write_fails(model_id, new_status)
    /\ RegistryCallOnly

CleanupOldModelsWriteFails ==
    /\ \E keep_per_type \in 0..MaxKeep : cleanup_old_models_write_fails(keep_per_type)
    /\ RegistryCallOnly

ImportRegistryWriteFails ==
    /\ \E file \in FilesUpTo(1), merge \in BOOLEAN : import_registry_write_fails(file, merge)
    /\ RegistryCallOnly

NextIO ==
    \/ ReplaceFromShortFile
    \/ AddModelWriteFails
    \/ UpdateModelStatusWriteFails
    \/ CleanupOldModelsWriteFails
    \/ ImportRegistryWriteFails

SpecIO == Init /\ [][NextIO]_vars

\* Two registry instances on one registry file, no synchronization: each call
\* runs to its end, the calls of the two instances interleave in any order.
OtherInit == other_init

OtherAddModel ==
    \E model_data \in {d \in CompleteData : d.metrics = {}} : other_add_model(model_data)

NextTwo == AddModelNoMetrics \/ OtherAddModel \/ OtherInit

SpecTwo == Init /\ [][NextTwo]_vars

\* The predictor.  The registry files it may find: ledgers of at most
\* MaxModels entries, as add_model and import_registry leave them.  Of an
\* active entry the created_at varies, of a candidate the accuracy; the
\* entries of the second model_type have id "b".
EnsembleEntries ==
    [id : UserIds, metrics : {{}}, created_at : 0..1, status : {"active"},
     model_type : GivenTypes]
    \cup [id : UserIds, metrics : MetricsSet, created_at : {0}, status : {"candidate"},
          model_type : GivenTypes]
    \cup [id : UserIds, metrics : {{}}, created_at : {0}, status : {"archived"},
          model_type : GivenTypes]
    \cup [id : {"b"}, metrics : {{}}, created_at : {1}, status : {"active", "candidate"},
          model_type : {DefaultType}]

EnsembleLedgers == UNION {[1..n -> EnsembleEntries] : n \in 0..MaxModels}

\* A registry whose file holds one of these ledgers, loaded by __init__.
InitEnsemble ==
    /\ disk \in EnsembleLedgers
    /\ models = disk
    /\ clock = 1
    /\ uuids = 0
    /\ ret = Returned("init", <<>>, NoError, "", <<>>, 0, TRUE)
    /\ other = <<>>
    /\ members = <<>>
    /\ out = NoCall

LoadModels ==
    \E model_type \in ModelTypes \cup {NoModelType},
       loaded \in SUBSET (1..(MaxChallengers + 1)) :
        load_models(model_type, loaded)

\* predict_single with models that raise or return a label.
PredictSingleLabels ==
    \E outcomes \in [DOMAIN members -> {o \in Outcomes : o.kind \in {"raises", "label"}}] :
        predict_single(outcomes)

NextEnsemble == LoadModels \/ PredictSingleLabels

SpecEnsemble == InitEnsemble /\ [][NextEnsemble]_vars

\* A predictor constructed on a registry file of at most two entries of one
\* model_type, an active "a" and candidates, and asked to predict.
PredictEntries ==
    [id : {"a"}, metrics : {{}}, created_at : {0}, status : {"active"},
     model_type : GivenTypes]
    \cup [id : {"b"}, metrics : {{}}, created_at : {0}, status : {"candidate"},
          model_type : GivenTypes]

PredictLedgers == UNION {[1..n -> PredictEntries] : n \in 0..2}

InitPredict ==
    /\ disk \in PredictLedgers
    /\ models = disk
    /\ clock = 1
    /\ uuids = 0
    /\ ret = Returned("init", <<>>, NoError, "", <<>>, 0, TRUE)
    /\ other = <<>>
    /\ members = <<>>
    /\ out = NoCall

\* The outcomes of a classifier: the label it predicts with a vector is the
\* first class of greatest probability, when that is a label.
ModelOutcomes ==
    {o \in Outcomes :
        o.kind = "proba" =>
            /\ o.label + 1 \in DOMAIN o.proba
            /\ \A c \in DOMAIN o.proba :
                   \/ o.proba[c] < o.proba[o.label + 1]
                   \/ o.proba[c] = o.proba[o.label + 1] /\ o.label + 1 <= c}

\* predict_single with models that raise, return a label, or return a label
\* and a probability vector.
PredictSingle ==
    \E outcomes \in [DOMAIN members -> ModelOutcomes] : predict_single(outcomes)

\* What a model does on an item of a batch: it raises, returns label 0 only,
\* or returns a label with a vector of two or of three classes.
BatchOutcomes ==
    {o \in Outcomes :
        \/ o.kind = "raises"
        \/ o.kind = "label" /\ o.label = 0
        \/ o.kind = "proba" /\ o.label = 0 /\ Len(o.proba) >= 2 /\ o.proba[1] = ProbUnit}

PredictBatch ==
    \E items \in UNION {[1..n -> [DOMAIN members -> BatchOutcomes]] : n \in 0..MaxBatch} :
        predict_batch(items)

NextPredict == LoadModels \/ PredictSingle \/ PredictBatch

SpecPredict == InitPredict /\ [][NextPredict]_vars

\* A predictor constructed on a registry file of at most MaxModels active and
\* candidate entries of one model_type, with given and generated ids, and
\* then used.
MemberEntries ==
    [id : UserIds \cup {Uuid(n) : n \in 1..MaxUuid}, metrics : {{}}, created_at : {0},
     status : {"active", "candidate"}, model_type : GivenTypes]

MemberLedgers == UNION {[1..n -> MemberEntries] : n \in 0..MaxModels}

InitMembers ==
    /\ disk \in MemberLedgers
    /\ models = disk
    /\ clock = 1
    /\ uuids = 0
    /\ ret = Returned("init", <<>>, NoError, "", <<>>, 0, TRUE)
    /\ other = <<>>
    /\ members = <<>>
    /\ out = NoCall

\* What a model does in these runs: it raises, returns label 0 only, or
\* returns label 0 with a vector of one class.
FewOutcomes ==
    {o \in Outcomes :
        \/ o.kind = "raises"
        \/ o.kind = "label" /\ o.label = 0
        \/ o.kind = "proba" /\ o.label = 0 /\ Len(o.proba) = 1}

PredictSingleFew ==
    \E outcomes \in [DOMAIN members -> FewOutcomes] : predict_single(outcomes)

\* predict_batch on items on each of which every model does the same.
PredictBatchFew ==
    \E items \in UNION {[1..n -> {[k \in DOMAIN members |-> o] :
                                     o \in {f \in FewOutcomes : f.kind # "proba"}}] :
                            n \in 0..MaxBatch} :
        predict_batch(items)

NextMembers == LoadModels \/ PredictSingleFew \/ PredictBatchFew \/ get_model_status

SpecMembers == InitMembers /\ [][NextMembers]_vars

\* The blend as a function of its arguments.  The weights a member may have:
\* those _load_models gives, and 0 (model_weights.get(model_id, 0)).
BlendWeights ==
    {0, ChampionWeight, RemainingWeight, RemainingWeight \div MaxChallengers}

\* What the members contributed, in member order: at most MaxBlend members
\* with distinct ids, each with a label, a vector or none, and a weight.
Contributions ==
    {c \in UNION {[1..n -> [id : UserIds, label : Labels,
                            proba : Vectors \cup {NoVector}, weight : BlendWeights]] :
                     n \in 0..MaxBlend} :
        \A k, l \in DOMAIN c : c[k].id = c[l].id => k = l}

\* The arguments of _ensemble_predict, and self.model_weights, for c.
BlendInputs(c) ==
    [op |-> "inputs",
     predictions |-> [k \in DOMAIN c |-> <<c[k].id, c[k].label>>],
     probabilities |->
         LET withVector == SelectSeq(c, LAMBDA x : x.proba # NoVector)
         IN  [k \in DOMAIN withVector |-> <<withVector[k].id, withVector[k].proba>>],
     weights |-> {<<c[k].id, c[k].weight>> : k \in DOMAIN c}]

InitBlend ==
    /\ models = <<>>
    /\ disk = <<>>
    /\ clock = 1
    /\ uuids = 0
    /\ ret = Returned("init", <<>>, NoError, "", <<>>, 0, TRUE)
    /\ other = <<>>
    /\ members = <<>>
    /\ out \in {BlendInputs(c) : c \in Contributions}

NextBlend == ensemble_predict

SpecBlend == InitBlend /\ [][NextBlend]_vars

\* ================================================================ claims
\* The entries of a type with a given status, as indices.
OfTypeWithStatus(ms, model_type, status) ==
    {i \in DOMAIN ms : ms[i].model_type = model_type /\ ms[i].status = status}

\* The call recorded in r was op and it returned (it did not raise).
Called(r, op) == r.op = op /\ r.error = NoError

\* C1: starting from an empty ledger, after any sequence of add_model and
\* update_model_status calls every model_type has at most one active entry.
C1_AtMostOneActive ==
    \A t \in ModelTypes : Cardinality(OfTypeWithStatus(models, t, "active")) <= 1

\* C1 witness: an entry was added as active to a type that already had an entry.
C1_Witness ==
    /\ Called(ret, "add_model")
    /\ ret.args[1].status = "active"
    /\ Cardinality(IndicesByType(models, ret.entry[1].model_type)) >= 2

\* C2: add_model of an active entry stores and returns it as active (so that
\* get_active_model of its type returns it), archives every other entry of the
\* type that was active, and changes no other entry.
C2_AddActive ==
    [][(Called(ret', "add_model") /\ ret'.args[1].status = "active") =>
        LET n == Len(models')
            t == models'[n].model_type
        IN  /\ n = Len(models) + 1
            /\ models'[n].status = "active"
            /\ ret'.entry = <<models'[n]>>
            /\ GetActiveModel(models', t) = n
            /\ \A i \in DOMAIN models :
                   models'[i] = IF models[i].model_type = t /\ models[i].status = "active"
                                THEN [models[i] EXCEPT !.status = "archived"]
                                ELSE models[i]]_vars

\* C3: after update_model_status(id, active) returns, the entry has status
\* active, every other entry of its type that was active is archived, and the
\* other entries are unchanged.
C3_SetActive ==
    [][(Called(ret', "update_model_status") /\ ret'.args[2] = "active") =>
        LET idx == GetModelById(models, ret'.args[1])
            t == models[idx].model_type
        IN  /\ Len(models') = Len(models)
            /\ models'[idx] = [models[idx] EXCEPT !.status = "active"]
            /\ \A i \in DOMAIN models \ {idx} :
                   models'[i] = IF models[i].model_type = t /\ models[i].status = "active"
                                THEN [models[i] EXCEPT !.status = "archived"]
                                ELSE models[i]]_vars

\* The update_model_status call recorded in ret' took an active entry to
\* new_status: idx is the entry, t its type.
Demoted(new_status) ==
    /\ Called(ret', "update_model_status")
    /\ ret'.args[2] = new_status
    /\ ret'.old_status = "active"

\* C4: when update_model_status archives the active entry of a type, then, if
\* the type has candidates, exactly one entry is promoted: a candidate with the
\* highest accuracy becomes active, get_active_model returns it, and no other
\* entry changes; if it has none, nothing is promoted and the type has no
\* active entry.
C4_Promotion ==
    [][Demoted("archived") =>
        LET idx == GetModelById(models, ret'.args[1])
            t == models[idx].model_type
            cands == OfTypeWithStatus(models, t, "candidate")
        IN  OfTypeWithStatus(models, t, "active") = {idx} =>
              /\ Len(models') = Len(models)
              /\ models'[idx] = [models[idx] EXCEPT !.status = "archived"]
              /\ IF cands # {}
                 THEN \E p \in cands :
                        /\ \A j \in cands : Accuracy(models[j]) <= Accuracy(models[p])
                        /\ models'[p] = [models[p] EXCEPT !.status = "active"]
                        /\ GetActiveModel(models', t) = p
                        /\ \A i \in DOMAIN models \ {idx, p} : models'[i] = models[i]
                 ELSE /\ \A i \in DOMAIN models \ {idx} : models'[i] = models[i]
                      /\ OfTypeWithStatus(models', t, "active") = {}]_vars

\* C4 witness: an active entry was archived, a candidate of its type with
\* accuracy above another candidate's is now active, the other still candidate.
C4_Witness ==
    /\ Called(ret, "update_model_status")
    /\ ret.args[2] = "archived"
    /\ ret.old_status = "active"
    /\ LET idx == GetModelById(models, ret.args[1])
           t == models[idx].model_type
       IN  /\ models[idx].status = "archived"
           /\ \E p \in OfTypeWithStatus(models, t, "active") :
                \E k \in OfTypeWithStatus(models, t, "candidate") :
                    Accuracy(models[k]) < Accuracy(models[p])

\* The candidates the promotion step of the call recorded in ret' chose among
\* (the demoted entry is one of them when it was made candidate), those of
\* them with the highest accuracy, and those of them it made active.
PromotionCandidates ==
    LET idx == GetModelById(models, ret'.args[1])
        at == [models EXCEPT ![idx].status = ret'.args[2]]
    IN  OfTypeWithStatus(at, models[idx].model_type, "candidate")

TopCandidates ==
    {i \in PromotionCandidates :
        \A j \in PromotionCandidates : Accuracy(models[j]) <= Accuracy(models[i])}

Promoted == {i \in PromotionCandidates : models'[i].status = "active"}

\* C5 as stated: when two or more candidates share the highest accuracy, the
\* one promoted is the one with the most recent created_at.
C5_TieByCreatedAt ==
    [][(Demoted("archived") \/ Demoted("candidate")) =>
        (Cardinality(TopCandidates) >= 2 =>
            \E p \in TopCandidates :
                /\ Promoted = {p}
                /\ \A j \in TopCandidates : models[j].created_at <= models[p].created_at)]_vars

\* C5 amended: when two or more candidates share the highest accuracy, the one
\* promoted is the one that comes first in the ledger, whatever the created_at.
C5_TieByLedgerOrder ==
    [][(Demoted("archived") \/ Demoted("candidate")) =>
        (Cardinality(TopCandidates) >= 2 =>
            \E p \in TopCandidates :
                /\ Promoted = {p}
                /\ \A j \in TopCandidates : p <= j)]_vars

\* C5 witness: after a demotion, the active entry of the type ties in accuracy
\* with a candidate that is later in the ledger and more recently created.
C5_Witness ==
    /\ Called(ret, "update_model_status")
    /\ ret.old_status = "active"
    /\ ret.args[2] = "archived"
    /\ \E p, k \in DOMAIN models :
          /\ p < k
          /\ models[p].model_type = models[k].model_type
          /\ models[p].model_type = models[GetModelById(models, ret.args[1])].model_type
          /\ models[p].status = "active"
          /\ models[k].status = "candidate"
          /\ Accuracy(models[p]) = Accuracy(models[k])
          /\ models[p].created_at < models[k].created_at

\* C6: add_model without one of the required keys, update_model_status with an
\* unknown id, and update_model_status with a status outside valid_statuses
\* raise, and leave the ledger and the registry file as they were: a call that
\* returns had every required key (a valid status and a known id), and a call
\* that raises changes neither the ledger nor the file.
C6_FailedCallChangesNothing ==
    [][/\ Called(ret', "add_model") => ret'.args[1].present = RequiredFields
       /\ Called(ret', "update_model_status") =>
            /\ ret'.args[2] \in ValidStatuses
            /\ \E i \in DOMAIN models : models[i].id = ret'.args[1]
       /\ ret'.error # NoError =>
            /\ ret'.error \in {MissingField, InvalidStatus, NotFound}
            /\ models' = models
            /\ disk' = disk]_vars

\* C6 witness: update_model_status raised on a ledger in which a type has an
\* active entry and a candidate (a demotion or promotion could have shown).
C6_Witness ==
    /\ ret.op = "update_model_status"
    /\ ret.error = InvalidStatus
    /\ \E t \in ModelTypes :
          /\ OfTypeWithStatus(models, t, "active") # {}
          /\ OfTypeWithStatus(models, t, "candidate") # {}

\* The dicts that lack the id key (and nothing else).
WithoutIdKey == {d \in IncompleteData : d.present = RequiredFields \ {"id"}}

\* The last entry of the ledger after the step is new and carries a generated id.
StoredUnderNewId ==
    /\ Len(models') = Len(models) + 1
    /\ models'[Len(models')].id \notin UserIds \cup {FalsyId}
    /\ \A i \in DOMAIN models : models[i].id # models'[Len(models')].id
    /\ ret'.entry = <<models'[Len(models')]>>

\* C7 as stated: add_model of an entry that has no id (every other required
\* key present) succeeds and stores the entry under a newly generated id.
C7_NoIdKeyAccepted ==
    [][ret'.op = "add_model" =>
        \A d \in WithoutIdKey :
            add_model(d) => (ret'.error = NoError /\ StoredUnderNewId)]_vars

\* C7 amended: add_model of an entry whose id is present but empty succeeds and
\* stores the entry under a newly generated id; an entry without the id key
\* is rejected (missing required field) and nothing is stored.
C7_FalsyIdGenerated ==
    [][ret'.op = "add_model" =>
        /\ (ret'.error = NoError /\ ret'.args[1].id = FalsyId) => StoredUnderNewId
        /\ ret'.error # NoError =>
              \A d \in CompleteData : d.id = FalsyId => ~add_model(d)
        /\ \A d \in WithoutIdKey :
              add_model(d) => (ret'.error = MissingField /\ models' = models)]_vars

\* C7 witness: an entry with an empty id was added to a non-empty ledger.
C7_Witness ==
    /\ Called(ret, "add_model")
    /\ ret.args[1].id = FalsyId
    /\ Len(models) >= 2
    /\ models[Len(models)].id = Uuid(uuids)

\* The entries of a ledger with a status among statuses, in ledger order.
WithStatusIn(ms, statuses) == SelectSeq(ms, LAMBDA m : m.status \in statuses)

\* The archived entries of a type, in ledger order.
ArchivedOf(ms, model_type) ==
    SelectSeq(ms, LAMBDA m : m.model_type = model_type /\ m.status = "archived")

\* How many times entry m occurs in a sequence.
Occurrences(m, seq) == Cardinality({i \in DOMAIN seq : seq[i] = m})

\* C8: after cleanup_old_models(N) every type has at most N archived entries
\* left, and every entry that was active or candidate is still there, unchanged.
C8_CleanupRetention ==
    [][Called(ret', "cleanup_old_models") =>
        /\ \A t \in ModelTypes : Len(ArchivedOf(models', t)) <= ret'.args[1]
        /\ WithStatusIn(models', {"active", "candidate"})
             = WithStatusIn(models, {"active", "candidate"})]_vars

\* C9: cleanup_old_models(N), N >= 0, removes of each type exactly the archived
\* entries that are not among its N most recently created archived entries,
\* returns the number of entries the ledger lost, and saves the ledger when
\* that number is positive.
C9_CleanupRemovesOldest ==
    [][Called(ret', "cleanup_old_models") =>
        /\ ret'.count = Len(models) - Len(models')
        /\ ret'.count > 0 => disk' = models'
        /\ WithStatusIn(models', ValidStatuses \ {"archived"})
             = WithStatusIn(models, ValidStatuses \ {"archived"})
        /\ \A t \in ModelTypes :
              LET before == ArchivedOf(models, t)
                  after == ArchivedOf(models', t)
              IN  /\ Len(after) = IF Len(before) < ret'.args[1] THEN Len(before)
                                  ELSE ret'.args[1]
                  /\ \A i \in DOMAIN after :
                        Occurrences(after[i], after) <= Occurrences(after[i], before)
                  \* what was removed is no more recent than what was kept
                  /\ \A i \in DOMAIN before, j \in DOMAIN after :
                        Occurrences(before[i], after) < Occurrences(before[i], before)
                            => before[i].created_at <= after[j].created_at]_vars

\* The k-th smallest element of a set of numbers.
Nth(K, k) == CHOOSE x \in K : Cardinality({y \in K : y < x}) = k - 1

\* C10: import_registry with merge appends exactly the imported entries whose
\* id is not in the ledger (in file order) and leaves the entries that were
\* there unchanged; without merge the ledger becomes the imported entries.
C10_Import ==
    [][(Called(ret', "import_registry") /\ ret'.ok) =>
        LET imported == ret'.args[1].models
            ids == {models[i].id : i \in DOMAIN models}
            new == {k \in DOMAIN imported : imported[k].id \notin ids}
        IN  IF ret'.args[2]
            THEN /\ Len(models') = Len(models) + Cardinality(new)
                 /\ \A i \in DOMAIN models : models'[i] = models[i]
                 /\ \A k \in 1..Cardinality(new) :
                       models'[Len(models) + k] = imported[Nth(new, k)]
            ELSE models' = imported]_vars

\* C10 witness: a merge import of a two-entry file appended one of its entries
\* and skipped the other, whose id an entry of the ledger already had.
C10_Witness ==
    /\ Called(ret, "import_registry")
    /\ ret.ok
    /\ ret.args[2]
    /\ Len(ret.args[1].models) = 2
    /\ Len(models) >= 2
    /\ \E k \in {1, 2} :
          /\ models[Len(models)] = ret.args[1].models[k]
          /\ \A i \in DOMAIN models : models[i].id = ret.args[1].models[k].id => i = Len(models)
          /\ \E i \in 1..(Len(models) - 1) :
                /\ models[i].id = ret.args[1].models[3 - k].id
                /\ models[i] # ret.args[1].models[3 - k]

\* At most one active entry per model_type in ledger ms.
AtMostOneActive(ms) ==
    \A t \in ModelTypes : Cardinality(OfTypeWithStatus(ms, t, "active")) <= 1

\* C11: from a ledger with at most one active entry per model_type, the ledger
\* after any call that returned (add_model, update_model_status,
\* cleanup_old_models, import_registry with or without merge) has at most one
\* active entry per model_type.
C11_CallsKeepOneActive ==
    [][(AtMostOneActive(models) /\ ret'.error = NoError) => AtMostOneActive(models')]_vars

\* C12: with one registry instance and no failing write, after every
\* add_model, update_model_status, cleanup_old_models or import_registry call
\* that returned successfully the models list of the registry file equals the
\* in-memory ledger: same entries, same statuses, same order.
C12_FileEqualsLedger ==
    (ret.error = NoError /\ ret.ok) => disk = models

\* C12 witness: the file equals a non-empty ledger after a cleanup that removed
\* an entry, and so wrote the file.
C12_Witness ==
    /\ Called(ret, "cleanup_old_models")
    /\ ret.count > 0
    /\ models # <<>>
    /\ disk = models

\* The number of arguments of a registry call.
Arity(op) ==
    CASE op = "add_model" -> 1
      [] op = "update_model_status" -> 2
      [] op = "cleanup_old_models" -> 1
      [] op = "import_registry" -> 2
      [] OTHER -> 0

\* The call recorded in r reached _save_registry and the write failed.
WriteFailed(r) == Len(r.args) = Arity(r.op) + 1

\* The ledger the call recorded in r had built in memory, from the ledger
\* before the call, when it reached _save_registry.
LedgerBeforeSave(r) ==
    CASE r.op = "add_model" -> AddModelLedger(r.args[1])
      [] r.op = "update_model_status" -> UpdateStatusLedger(r.args[1], r.args[2])
      [] r.op = "cleanup_old_models" ->
             CleanupTypes(models, TypesInOrder(models), r.args[1])
      [] r.op = "import_registry" ->
             IF r.args[2] THEN MergeModels(models, r.args[1].models)
             ELSE r.args[1].models

\* C13: a write that fails in add_model, update_model_status,
\* cleanup_old_models or import_registry leaves the call as a raised error,
\* and the in-memory ledger keeps the mutation already applied.
C13_WriteFailureRaised ==
    [][WriteFailed(ret') =>
        /\ ret'.error = IOFailure
        /\ models' = LedgerBeforeSave(ret')
        /\ disk' = disk]_vars

\* C13 amended: a write that fails in add_model, update_model_status or
\* cleanup_old_models leaves the call as a raised error; in import_registry it
\* is caught and the call returns False; in every case the in-memory ledger
\* keeps the mutation already applied and the file stays as it was.
C13_WriteFailureNoRollback ==
    [][WriteFailed(ret') =>
        /\ IF ret'.op = "import_registry"
           THEN ret'.error = NoError /\ ~ret'.ok
           ELSE ret'.error = IOFailure
        /\ models' = LedgerBeforeSave(ret')
        /\ disk' = disk]_vars

\* C13 witness: add_model raised on a failing write and the ledger holds an
\* entry the file does not, while the file is not empty.
C13_Witness ==
    /\ ret.op = "add_model"
    /\ WriteFailed(ret)
    /\ ret.error = IOFailure
    /\ disk # <<>>
    /\ Len(models) = Len(disk) + 1
    /\ \A i \in DOMAIN disk : models[i] = disk[i]

\* C14: a call of add_model by the second instance returns successfully and
\* writes that instance's ledger whole; an entry the file held that the
\* instance had not loaded is no longer in the file (a lost update).
C14_SaveOverwritesFile ==
    [][Called(ret', "other.add_model") =>
        /\ disk' = other'
        /\ \A i \in DOMAIN disk : ~InList(disk[i], other) => ~InList(disk[i], disk')]_vars

\* C14 witness: both instances' add_model calls returned; the entry the first
\* instance added and saved is in its ledger and missing from the file, which
\* holds the second instance's entry.
C14_Witness ==
    /\ Called(ret, "other.add_model")
    /\ models # <<>>
    /\ \A i \in DOMAIN models :
          /\ ~InList(models[i], disk)
          /\ models[i].id # ret.entry[1].id
    /\ InList(ret.entry[1], disk)
    /\ disk = other

\* The smaller of two numbers.
Min(a, b) == IF a < b THEN a ELSE b

\* C15: after the predictor was loaded for a model_type and every selected
\* artifact loaded, the members are: first the champion, an active entry of
\* the type with the latest created_at, with weight 0.7 (none when the type has
\* no active entry); then the up to two candidates of the type with the highest
\* accuracy, in descending accuracy, each with weight 0.3 divided by their
\* number; and nothing else.
C15_ChampionAndChallengers ==
    (/\ out.op = "load_models"
     /\ out.model_type # NoModelType
     /\ out.loaded = DOMAIN out.selection) =>
        LET t == out.model_type
            act == OfTypeWithStatus(disk, t, "active")
            cand == OfTypeWithStatus(disk, t, "candidate")
            nch == Min(MaxChallengers, Cardinality(cand))
            nchamp == IF act = {} THEN 0 ELSE 1
            chals == (nchamp + 1)..(nchamp + nch)
        IN  /\ Len(members) = nchamp + nch
            /\ nchamp = 1 =>
                  /\ members[1].weight = 70
                  /\ members[1].id = members[1].model_entry.id
                  /\ \E i \in act : members[1].model_entry = disk[i]
                  /\ \A i \in act : disk[i].created_at <= members[1].model_entry.created_at
            /\ \A k \in chals :
                  /\ members[k].weight * nch = 30
                  /\ members[k].id = members[k].model_entry.id
                  /\ \E i \in cand : members[k].model_entry = disk[i]
                  /\ \A l \in chals :
                        k < l => Accuracy(members[k].model_entry)
                                    >= Accuracy(members[l].model_entry)
                  /\ \A i \in cand :
                        \/ \E l \in chals : members[l].model_entry = disk[i]
                        \/ Accuracy(disk[i]) <= Accuracy(members[k].model_entry)

\* C16: a selected entry whose artifact does not load is not a member and
\* loading does not fail: every other selected entry is a member, with the
\* weight the selection gave it.
C16_FailSoftLoad ==
    out.op = "load_models" =>
        /\ Len(members) = Cardinality(out.loaded)
        /\ \A n \in DOMAIN out.selection :
              (\E k \in DOMAIN members :
                   /\ members[k].model_entry = out.selection[n][1]
                   /\ members[k].weight = out.selection[n][2])
                  <=> n \in out.loaded

\* C16, second part: a predictor of which no selected entry loaded has no
\* members and its predict_single raises the no-models error.
C16_NoMembersNoPrediction ==
    [][/\ (out'.op = "load_models" /\ out'.loaded = {}) => members' = <<>>
       /\ (out'.op = "predict_single" /\ members = <<>>) => out'.error = NoModels]_vars

\* C17: when exactly one prediction is present at blending time, the result
\* is that member's label, unchanged, with confidence 1.0, whatever the
\* member's weight and whether or not it supplied a probability vector.
C17_SinglePrediction ==
    (out.op = "ensemble_predict" /\ Len(out.predictions) = 1) =>
        /\ out.error = NoError
        /\ out.prediction = out.predictions[1][2]
        /\ out.confidence = <<1, 1>>

\* C17 witness: the one prediction present came with weight 0 and with a
\* probability vector whose greatest class is not the label, and the blend
\* returned.
C17_Witness ==
    /\ out.op = "ensemble_predict"
    /\ Len(out.predictions) = 1
    /\ out.predictions[1][2] = 1
    /\ out.probabilities = <<<<out.predictions[1][1], <<ProbUnit, 0>>>>>>
    /\ out.weights = {<<out.predictions[1][1], 0>>}
    /\ out.prediction = 1

\* The weighted sum, at class c, of the vectors contributed; a class that a
\* vector does not have counts as probability 0.
RECURSIVE PaddedSum(_, _, _)
PaddedSum(probabilities, weights, c) ==
    IF probabilities = <<>> THEN 0
    ELSE LET proba == Head(probabilities)[2]
         IN  (IF c <= Len(proba) THEN proba[c] ELSE 0)
                 * MetricsGet(weights, Head(probabilities)[1], 0)
             + PaddedSum(Tail(probabilities), weights, c)

\* The sum of the weights of the members that contributed a vector.
ContributedWeight(o) == TotalWeight(o.probabilities, o.weights)

\* The fraction <<a, b>> equals the fraction <<c, d>>.
SameFraction(x, y) == x[1] * y[2] = y[1] * x[2]

\* C18: with two or more predictions and at least one probability vector,
\* the contributors having positive total weight, the blend returns a class
\* that maximises the weighted sum of the contributed vectors divided by the
\* contributors' total weight, and the confidence is that maximum; it is
\* determined by the vectors and their weights alone.
C18_WeightedProbability ==
    (/\ out.op = "ensemble_predict"
     /\ Len(out.predictions) >= 2
     /\ out.probabilities # <<>>
     /\ ContributedWeight(out) > 0) =>
        LET n == MaxLen(out.probabilities)
            blend(c) == PaddedSum(out.probabilities, out.weights, c)
        IN  /\ out.error = NoError
            /\ out.prediction + 1 \in 1..n
            /\ \A c \in 1..n : blend(c) <= blend(out.prediction + 1)
            /\ SameFraction(out.confidence,
                            <<blend(out.prediction + 1), ContributedWeight(out) * ProbUnit>>)

\* The sum of the entries of a vector.
RECURSIVE SumOfVector(_)
SumOfVector(proba) == IF proba = <<>> THEN 0 ELSE Head(proba) + SumOfVector(Tail(proba))

\* The sum of two fractions.
AddFraction(x, y) ==
    IF x[2] = y[2] THEN <<x[1] + y[1], x[2]>>
    ELSE <<x[1] * y[2] + y[1] * x[2], x[2] * y[2]>>

\* The sum of the first n entries of the blended vector, after normalization.
RECURSIVE SumOfBlend(_, _, _)
SumOfBlend(probabilities, weights, n) ==
    IF n = 0 THEN <<0, 1>>
    ELSE AddFraction(SumOfBlend(probabilities, weights, n - 1),
                     WeightedProbs(probabilities, weights, n))

\* The contributed vectors have the same length and each sums to 1.
Distributions(probabilities) ==
    \A k \in DOMAIN probabilities :
        /\ Len(probabilities[k][2]) = MaxLen(probabilities)
        /\ SumOfVector(probabilities[k][2]) = ProbUnit

\* The blend of o went through the weighted average of vectors.
BlendedByVectors(o) ==
    /\ o.op = "ensemble_predict"
    /\ Len(o.predictions) >= 2
    /\ o.probabilities # <<>>

\* C19: when the contributing members have total weight W > 0 and their
\* vectors have equal length and each sums to 1, the blended vector sums to 1
\* after normalization and the confidence lies in (0, 1], whatever W is.
C19_NormalizedBlend ==
    (/\ BlendedByVectors(out)
     /\ Distributions(out.probabilities)
     /\ ContributedWeight(out) > 0) =>
        /\ out.error = NoError
        /\ SameFraction(SumOfBlend(out.probabilities, out.weights,
                                   MaxLen(out.probabilities)), <<1, 1>>)
        /\ out.confidence =
               WeightedProbs(out.probabilities, out.weights, out.prediction + 1)
        /\ 0 < out.confidence[1]
        /\ out.confidence[1] <= out.confidence[2]

\* Two challengers blended without the champion (W = 0.3), both vectors over
\* two classes and the blend not certain of its class.
C19_Witness ==
    /\ BlendedByVectors(out)
    /\ Distributions(out.probabilities)
    /\ Len(out.probabilities) = 2
    /\ MaxLen(out.probabilities) = 2
    /\ \A k \in DOMAIN out.probabilities :
           MetricsGet(out.weights, out.probabilities[k][1], 0)
               = RemainingWeight \div MaxChallengers
    /\ ContributedWeight(out) = RemainingWeight
    /\ out.error = NoError
    /\ out.confidence[1] < out.confidence[2]

\* C20: blending by probability vectors when the weights of the members that
\* contributed a vector add up to 0 fails: it returns no prediction and
\* confidence.
C20_ZeroWeightFails ==
    (BlendedByVectors(out) /\ ContributedWeight(out) = 0) => out.error # NoError

\* Two of the contributed vectors have different lengths.
LengthsDiffer(probabilities) ==
    \E k, l \in DOMAIN probabilities :
        Len(probabilities[k][2]) # Len(probabilities[l][2])

\* C21: when the contributed vectors have different lengths the blend does
\* not fail, and it counts the classes missing from a shorter vector as
\* probability 0: it returns a class with the greatest weighted sum so
\* computed.
C21_MissingClassesAreZero ==
    (BlendedByVectors(out) /\ LengthsDiffer(out.probabilities)) =>
        /\ out.error = NoError
        /\ out.prediction + 1 \in 1..MaxLen(out.probabilities)
        /\ \A c \in 1..MaxLen(out.probabilities) :
               PaddedSum(out.probabilities, out.weights, c)
                   <= PaddedSum(out.probabilities, out.weights, out.prediction + 1)

\* The weight accumulated by a label: the sum of the weights of the members
\* that predicted it.
RECURSIVE VotesFor(_, _, _)
VotesFor(predictions, weights, label) ==
    IF predictions = <<>> THEN 0
    ELSE (IF Head(predictions)[2] = label
          THEN MetricsGet(weights, Head(predictions)[1], 0) ELSE 0)
         + VotesFor(Tail(predictions), weights, label)

\* The labels voted for.
VotedLabels(predictions) == {predictions[k][2] : k \in DOMAIN predictions}

\* The total weight of the voting members.
RECURSIVE VotingWeight(_, _)
VotingWeight(predictions, weights) ==
    IF predictions = <<>> THEN 0
    ELSE MetricsGet(weights, Head(predictions)[1], 0)
         + VotingWeight(Tail(predictions), weights)

\* The blend of o went through the weighted vote.
BlendedByVote(o) ==
    /\ o.op = "ensemble_predict"
    /\ Len(o.predictions) >= 2
    /\ o.probabilities = <<>>

\* C22: with two or more predictions and no probability vector, the blend
\* returns a label whose accumulated weight is the highest, with confidence
\* that weight divided by the total weight of the voting members, or 0 when
\* the total is 0.
C22_WeightedVote ==
    BlendedByVote(out) =>
        LET total == VotingWeight(out.predictions, out.weights)
            votes(l) == VotesFor(out.predictions, out.weights, l)
        IN  /\ out.error = NoError
            /\ out.prediction \in VotedLabels(out.predictions)
            /\ \A l \in VotedLabels(out.predictions) : votes(l) <= votes(out.prediction)
            /\ IF total > 0
               THEN SameFraction(out.confidence, <<votes(out.prediction), total>>)
               ELSE out.confidence[1] = 0 /\ out.confidence[2] > 0

\* The second member outvotes the first, which voted for another label.
C22_Witness ==
    /\ BlendedByVote(out)
    /\ out.error = NoError
    /\ out.prediction = out.predictions[2][2]
    /\ out.prediction # out.predictions[1][2]
    /\ VotesFor(out.predictions, out.weights, out.predictions[1][2]) > 0
    /\ out.confidence[1] < out.confidence[2]

\* The members whose predict call returned, as positions of the member list.
Survivors(mem, outcomes) == {k \in DOMAIN mem : outcomes[k].kind # "raises"}

\* The ids that contributed a label to the blend.
BlendedIds(predictions) == {predictions[k][1] : k \in DOMAIN predictions}

\* C23: predict_single on a predictor with members fails with "All model
\* predictions failed" exactly when the predict call of every member raised;
\* otherwise it returns a result, blended from exactly the members whose
\* predict call returned.
C23_FailsOnlyWhenAllFail ==
    (out.op = "predict_single" /\ members # <<>>) =>
        LET survivors == Survivors(members, out.outcomes)
        IN  /\ out.error = AllFailed <=> survivors = {}
            /\ survivors # {} =>
                   /\ out.error = NoError
                   /\ BlendedIds(out.predictions) = {members[k].id : k \in survivors}
                   /\ Len(out.predictions) = Cardinality(survivors)

\* What a batch record says of its item, apart from the index.
Carried(record) ==
    [error |-> record.error, prediction |-> record.prediction,
     confidence |-> record.confidence]

\* C24: for every list of items, the empty one included, predict_batch
\* returns a list of the same length whose i-th record carries match_index i
\* and is the prediction and confidence of item i, or the error of item i,
\* as predict_single gives them for that item alone, whatever happened to
\* the other items.
C24_BatchKeepsLength ==
    out.op = "predict_batch" =>
        /\ out.error = NoError
        /\ Len(out.results) = Len(out.items)
        /\ \A i \in DOMAIN out.items :
               /\ out.results[i].match_index = i - 1
               /\ Carried(out.results[i]) = PredictSingleResult(members, out.items[i])

\* A batch of two items on two members: the first item fails, the second is
\* predicted.
C24_Witness ==
    /\ out.op = "predict_batch"
    /\ Len(members) = 2
    /\ Len(out.items) = 2
    /\ Len(out.results) = 2
    /\ out.results[1].error # NoError
    /\ out.results[2].error = NoError
    /\ out.results[2].match_index = 1

\* The empty batch returns the empty list.
C24_EmptyBatch ==
    (out.op = "predict_batch" /\ out.items = <<>>) => out.results = <<>>

\* C25: after update_model_status(id, 'candidate') returns on an entry that
\* was active, that entry is a candidate: the promotion that the demotion
\* triggers does not make it active again.
C25_DemotedStaysCandidate ==
    [][Demoted("candidate") =>
        models'[GetModelById(models, ret'.args[1])].status = "candidate"]_vars

\* C26: a member whose predict_proba raises after its predict returned is
\* left out of that predict_single call: neither its label nor a vector of
\* it reaches the blend, and when no other member is left the call fails
\* instead of returning that member's label.
C26_ProbaFailureExcludes ==
    out.op = "predict_single" =>
        /\ \A k \in DOMAIN members :
               out.outcomes[k].kind = "proba_raises" =>
                   /\ members[k].id \notin BlendedIds(out.predictions)
                   /\ members[k].id \notin BlendedIds(out.probabilities)
        /\ (/\ members # <<>>
            /\ \A k \in DOMAIN members :
                   out.outcomes[k].kind \in {"raises", "proba_raises"}) =>
               out.error = AllFailed

\* The labels that tie for the highest accumulated weight.
TiedLabels(predictions, weights) ==
    {l \in VotedLabels(predictions) :
        \A m \in VotedLabels(predictions) :
            VotesFor(predictions, weights, m) <= VotesFor(predictions, weights, l)}

\* The members in the order champion first, then challengers by descending
\* accuracy (those of equal accuracy in member order).
ChampionThenChallengers(mem) ==
    SelectSeq(mem, LAMBDA m : m.model_entry.status = "active")
    \o [k \in DOMAIN SortByAccuracyDesc(
                         [j \in DOMAIN SelectSeq(mem, LAMBDA m : m.model_entry.status # "active") |->
                             SelectSeq(mem, LAMBDA m : m.model_entry.status # "active")[j].model_entry])
         |-> LET e == SortByAccuracyDesc(
                         [j \in DOMAIN SelectSeq(mem, LAMBDA m : m.model_entry.status # "active") |->
                             SelectSeq(mem, LAMBDA m : m.model_entry.status # "active")[j].model_entry])[k]
             IN  CHOOSE m \in {mem[i] : i \in DOMAIN mem} : m.model_entry = e]

\* The label of member id among the predictions.
LabelOf(predictions, id) ==
    predictions[CHOOSE k \in DOMAIN predictions : predictions[k][1] = id][2]

\* The voting members, as ids, in the order champion first, then challengers
\* by descending accuracy.
VotersInOrder(mem, predictions) ==
    LET ordered == ChampionThenChallengers(mem)
        voting == SelectSeq(ordered, LAMBDA m : m.id \in BlendedIds(predictions))
    IN  [k \in DOMAIN voting |-> voting[k].id]

\* predict_single blended the labels of two or more members by the vote.
VotedBySeveral(o) ==
    /\ o.op = "predict_single"
    /\ o.error = NoError
    /\ Len(o.predictions) >= 2
    /\ o.probabilities = <<>>

\* C27: in the weighted vote, when labels tie for the highest accumulated
\* weight, the winner is the tied label voted for by the earliest member in
\* the order champion first, then challengers by descending accuracy.
C27_TieToFirstVoted ==
    VotedBySeveral(out) =>
        LET weights == ModelWeights(members)
            tied == TiedLabels(out.predictions, weights)
            voters == VotersInOrder(members, out.predictions)
            first == CHOOSE k \in DOMAIN voters :
                         /\ LabelOf(out.predictions, voters[k]) \in tied
                         /\ \A j \in 1..(k - 1) :
                                LabelOf(out.predictions, voters[j]) \notin tied
        IN  out.prediction = LabelOf(out.predictions, voters[first])

\* C28: every entry of the ledger has a status among candidate, active and
\* archived, add_model refusing any other status as update_model_status does.
C28_StatusesAreValid ==
    \A i \in DOMAIN models : models[i].status \in ValidStatuses

\* C29: no two entries of the ledger have the same id.
C29_IdsAreUnique ==
    \A i, j \in DOMAIN models : models[i].id = models[j].id => i = j

\* The sum of the members' weights.
RECURSIVE SumOfWeights(_)
SumOfWeights(mem) == IF mem = <<>> THEN 0 ELSE Head(mem).weight + SumOfWeights(Tail(mem))

\* At most one champion and two challengers, each with a positive weight
\* among 0.7, 0.3 and 0.15, the weights adding up to at most 1.
MembersWithinWeights(mem) ==
    /\ Len(mem) <= 3
    /\ Cardinality({k \in DOMAIN mem : mem[k].weight = 70}) <= 1
    /\ Cardinality({k \in DOMAIN mem : mem[k].weight # 70}) <= 2
    /\ \A k \in DOMAIN mem : mem[k].weight > 0 /\ mem[k].weight \in {70, 30, 15}
    /\ \A k, l \in DOMAIN mem : mem[k].id = mem[l].id => k = l
    /\ SumOfWeights(mem) <= 100

\* C30: whatever the registry file holds and whichever artifacts load, the
\* predictor has at most three members, at most one of weight 0.7 and at
\* most two challengers, every weight is positive and one of 0.7, 0.3 and
\* 0.15, and the weights add up to at most 1; predict_single, predict_batch
\* and get_model_status leave the members and their weights as they were,
\* and the members that predict_single blends have a positive total weight.
C30_MembersAndWeights ==
    [][/\ MembersWithinWeights(members')
       /\ out'.op \in {"predict_single", "predict_batch", "get_model_status"} =>
              members' = members
       /\ (out'.op = "predict_single" /\ out'.predictions # <<>>) =>
              /\ VotingWeight(out'.predictions, ModelWeights(members')) > 0
              /\ out'.probabilities # <<>> =>
                     TotalWeight(out'.probabilities, ModelWeights(members')) > 0]_vars

\* A champion and two challengers, all of which predicted with a vector.
C30_Witness ==
    /\ out.op = "predict_single"
    /\ out.error = NoError
    /\ Len(members) = 3
    /\ SumOfWeights(members) = 100
    /\ Len(out.probabilities) = 3

====
